---------------------------- MODULE Spec2Model ----------------------------
(***************************************************************************)
(* Org Health Analyzer (src/app.py): one Streamlit session.  Every upload  *)
(* or rerun executes the script top to bottom: compute_metrics (table      *)
(* lookup, direct-report counts, breadth-first depth, one-time seeding of  *)
(* the session targets from Principles), then KPIs, flags, duplicate       *)
(* titles and the recommendation list.                                     *)
(*                                                                         *)
(* Identifiers are the strings left by astype(str)/_standardize.  A        *)
(* natural n >= 1 stands for a fixed-width identifier string (so string    *)
(* order is numeric order); NAN stands for the string 'nan' that           *)
(* astype(str) makes of a blank cell.  Employee identifiers are unique in  *)
(* the employee table (data model, spec section 3).                        *)
(***************************************************************************)
EXTENDS Integers, Sequences, FiniteSets, TLC

VARIABLES
    pc,          \* position of the script: idle | bfs | halted | fault | done
    session,     \* st.session_state
    sheets,      \* the tables of the current pass (after pick/_standardize)
    ctl,         \* sidebar controls min_span, max_span, max_layers_target
    hashOrder,   \* iteration order of Python sets of identifiers in this pass
    emp,         \* employees merged with DirectReports / IsManager / Depth
    parent_of,   \* manager identifier -> set of subordinate identifiers
    roots,       \* roots still to be traversed (the for r in roots loop)
    depth,       \* the depth dict (NONE for an unassigned key)
    q,           \* the deque of the traversal
    enq,         \* how many times each identifier has been put on the deque
    out,         \* KPIs, flagged subsets, dup_titles, recs, displayed recs
    principlesSeen  \* history: a pass that had a Principles sheet has ended

vars == <<pc, session, sheets, ctl, hashOrder, emp, parent_of, roots, depth,
          q, enq, out, principlesSeen>>

-----------------------------------------------------------------------------
(* Bounds of the model *)

MaxIds == 3
MaxEdgeRows == 3
MaxTeams == 31
MaxRole == 2

(* Program constants *)

DefaultMinSpan == 4
DefaultMaxSpan == 12
DefaultMaxLayers == 6
DupHead == 20
RecsShown == 50

NAN == 0
NONE == -1

Ids == 1..MaxIds
\* The largest identifier of any upload (the large organisation's last report)
LastId == 102 + 3 * MaxTeams
Mgrs == Ids \cup {NAN}

-----------------------------------------------------------------------------
(* Generic helpers *)

Range(s) == {s[i] : i \in 1..Len(s)}

Min2(a, b) == IF a < b THEN a ELSE b

Take(s, n) == SubSeq(s, 1, Min2(n, Len(s)))

RECURSIVE SumSeq(_)
SumSeq(s) == IF s = <<>> THEN 0 ELSE Head(s) + SumSeq(Tail(s))

\* Order of identifier strings: 'nan' sorts after every fixed-width identifier.
StrLess(x, y) == IF x = NAN THEN FALSE ELSE IF y = NAN THEN TRUE ELSE x < y

\* sorted(list(S)) for a set of identifier strings
RECURSIVE SortedIds(_)
SortedIds(S) ==
    IF S = {} THEN <<>>
    ELSE LET m == CHOOSE x \in S : \A y \in S \ {x} : StrLess(x, y)
         IN <<m>> \o SortedIds(S \ {m})

\* The elements of a Python set S in the order this pass iterates them.
InHashOrder(S) == SelectSeq(hashOrder, LAMBDA x : x \in S)

\* dict.get(k, default)
Get(d, k, default) == IF k \in DOMAIN d THEN d[k] ELSE default

-----------------------------------------------------------------------------
(* Tables *)

NoOutput ==
    [produced |-> FALSE, n_people |-> 0, n_managers |-> 0,
     manager_ratio |-> <<0, 1>>, avg_span |-> <<0, 1>>,
     median_span |-> <<0, 1>>, min_observed |-> 0, max_observed |-> 0,
     max_depth |-> 0, below_min |-> <<>>, above_max |-> <<>>,
     single_report |-> <<>>, dup_titles |-> <<>>, recs |-> <<>>,
     shown |-> <<>>]

EmptySession ==
    [min_span |-> NONE, max_span |-> NONE, max_layers |-> NONE,
     prefilled |-> FALSE]

IdsOf(rows) == {rows[i].EmployeeID : i \in 1..Len(rows)}

\* groupby('ManagerID')['EmployeeID'].count(): the rows whose manager is m
CountRowsBroken(rows, m) ==
    Cardinality({rows[i].EmployeeID : i \in {j \in 1..Len(rows) : rows[j].ManagerID = m}})

CountRows(rows, m) == Cardinality({i \in 1..Len(rows) : rows[i].ManagerID = m})

\* The table that supplies reporting lines: OrgEdges when present
ReportingRows(s) == IF s.edges.present THEN s.edges.rows ELSE s.employees.rows

\* employees.merge(mgr_counts, how='left'), fillna(0), IsManager
MergeCounts(s) ==
    [i \in 1..Len(s.employees.rows) |->
        LET r == s.employees.rows[i]
            n == CountRows(ReportingRows(s), r.EmployeeID)
        IN [EmployeeID |-> r.EmployeeID, ManagerID |-> r.ManagerID,
            JobRole |-> r.JobRole, DirectReports |-> n,
            IsManager |-> n > 0, Depth |-> NONE]]

\* parent_of[r['ManagerID']].add(r['EmployeeID']) over the reporting rows
BuildParentOf(rows) ==
    [m \in {rows[i].ManagerID : i \in 1..Len(rows)} |->
        {rows[i].EmployeeID : i \in {j \in 1..Len(rows) : rows[j].ManagerID = m}}]

\* Series.unique(): first occurrences, in order
RECURSIVE Unique(_)
Unique(s) ==
    IF s = <<>> THEN <<>>
    ELSE LET rest == Unique(SubSeq(s, 1, Len(s) - 1))
             x == s[Len(s)]
         IN IF x \in Range(rest) THEN rest ELSE Append(rest, x)

RootsOf(s) ==
    IF s.edges.present
    THEN LET rows == s.edges.rows
             children == {rows[i].EmployeeID : i \in 1..Len(rows)}
             parents == {rows[i].ManagerID : i \in 1..Len(rows)}
         IN SortedIds(parents \ children)
    ELSE LET rows == s.employees.rows
             top == SelectSeq(rows, LAMBDA r : r.ManagerID \notin IdsOf(rows))
         IN Unique([i \in 1..Len(top) |-> top[i].EmployeeID])

MissingInput(s) ==
    \/ ~s.employees.present
    \/ ~s.edges.present /\ ~s.employees.hasManagerID

-----------------------------------------------------------------------------
(* The script up to the traversal: lines 45-96 *)

Run(s, c, o) ==
    /\ pc \in {"idle", "halted", "fault", "done"}
    /\ sheets' = s
    /\ ctl' = c
    /\ hashOrder' = o
    /\ q' = <<>>
    /\ out' = NoOutput
    /\ UNCHANGED session
    /\ principlesSeen' = (principlesSeen \/ (MissingInput(s) /\ s.principles.present))
    /\ IF MissingInput(s)
       THEN /\ pc' = "halted"
            /\ emp' = <<>>
            /\ parent_of' = <<>>
            /\ roots' = <<>>
            /\ depth' = <<>>
            /\ enq' = <<>>
       ELSE /\ pc' = "bfs"
            /\ emp' = MergeCounts(s)
            /\ parent_of' = BuildParentOf(ReportingRows(s))
            /\ roots' = RootsOf(s)
            /\ depth' = [e \in IdsOf(s.employees.rows) |-> NONE]
            /\ enq' = [e \in IdsOf(s.employees.rows) \cup IdsOf(ReportingRows(s))
                              \cup Range(RootsOf(s)) |-> 0]

-----------------------------------------------------------------------------
(* Depth via BFS from roots: lines 97-106 *)

\* for r in roots: depth[r] = 0 unless assigned; q = deque([r])
StartRoot ==
    /\ pc = "bfs"
    /\ q = <<>>
    /\ roots # <<>>
    /\ LET r == Head(roots)
       IN /\ depth' = IF r \in DOMAIN depth /\ depth[r] = NONE
                      THEN [depth EXCEPT ![r] = 0]
                      ELSE depth
          /\ q' = <<r>>
          /\ enq' = [enq EXCEPT ![r] = @ + 1]
    /\ roots' = Tail(roots)
    /\ UNCHANGED <<pc, session, sheets, ctl, hashOrder, emp, parent_of, out,
                   principlesSeen>>

\* if depth.get(ch) is None
UnvisitedAlways(d, ch) == TRUE

Unvisited(d, ch) == Get(d, ch, NONE) = NONE

\* depth[ch] = (depth.get(cur, 0) or 0) + 1
ChildDepthFlat(d, cur) == 1

ChildDepth(d, cur) ==
    LET v == Get(d, cur, 0) IN (IF v = NONE THEN 0 ELSE v) + 1

\* The for ch in parent_of.get(cur, []) loop over the children still to come;
\* st is <<depth, q, enq>>.
RECURSIVE VisitChildren(_, _, _)
VisitChildren(cur, chs, st) ==
    IF chs = <<>> THEN st
    ELSE LET ch == Head(chs)
             d == st[1]
         IN IF Unvisited(d, ch)
            THEN VisitChildren(cur, Tail(chs),
                    <<[x \in DOMAIN d \cup {ch} |->
                          IF x = ch THEN ChildDepth(d, cur) ELSE d[x]],
                      Append(st[2], ch),
                      [st[3] EXCEPT ![ch] = @ + 1]>>)
            ELSE VisitChildren(cur, Tail(chs), st)

\* One iteration of while q: cur = q.popleft(), then the loop over its children
Visit ==
    /\ pc = "bfs"
    /\ q # <<>>
    /\ LET cur == Head(q)
           chs == InHashOrder(Get(parent_of, cur, {}))
           st == VisitChildren(cur, chs, <<depth, Tail(q), enq>>)
       IN /\ depth' = st[1]
          /\ q' = st[2]
          /\ enq' = st[3]
    /\ UNCHANGED <<pc, session, sheets, ctl, hashOrder, emp, parent_of, roots,
                   out, principlesSeen>>

-----------------------------------------------------------------------------
(* Principles: text of a TargetRule as a sequence of characters *)

IsDigit(c) == c \in {"0", "1", "2", "3", "4", "5", "6", "7", "8", "9"}

DigitVal(c) ==
    CASE c = "0" -> 0 [] c = "1" -> 1 [] c = "2" -> 2 [] c = "3" -> 3
      [] c = "4" -> 4 [] c = "5" -> 5 [] c = "6" -> 6 [] c = "7" -> 7
      [] c = "8" -> 8 [] c = "9" -> 9

\* int(s) of a string of digits
RECURSIVE IntOf(_)
IntOf(s) ==
    IF s = <<>> THEN 0
    ELSE 10 * IntOf(SubSeq(s, 1, Len(s) - 1)) + DigitVal(s[Len(s)])

\* ''.join(filter(str.isdigit, s))
DigitsOf(s) == SelectSeq(s, IsDigit)

\* str.strip()
RECURSIVE Strip(_)
Strip(s) ==
    IF s = <<>> THEN s
    ELSE IF Head(s) = " " THEN Strip(Tail(s))
    ELSE IF s[Len(s)] = " " THEN Strip(SubSeq(s, 1, Len(s) - 1))
    ELSE s

FirstIdx(s, c) ==
    IF \E i \in 1..Len(s) : s[i] = c
    THEN CHOOSE i \in 1..Len(s) : s[i] = c /\ \A j \in 1..(i - 1) : s[j] # c
    ELSE 0

\* s.split(c)[0] and the text after the first c
Before(s, c) == IF FirstIdx(s, c) = 0 THEN s ELSE SubSeq(s, 1, FirstIdx(s, c) - 1)
After(s, c) == SubSeq(s, FirstIdx(s, c) + 1, Len(s))

\* s.split(): the whitespace-separated tokens
RECURSIVE Tokens(_)
Tokens(s) ==
    IF s = <<>> THEN <<>>
    ELSE IF Head(s) = " " THEN Tokens(Tail(s))
    ELSE <<Before(s, " ")>> \o
         (IF FirstIdx(s, " ") = 0 THEN <<>> ELSE Tokens(After(s, " ")))

\* str.contains(word, case=False) on the Name column
NameContains(name, word) ==
    CASE word = "span" -> name \in {"Span of Control", "Spans and Layers"}
      [] word = "layer" -> name \in {"Max Layers", "Spans and Layers"}

\* principles[principles['Name'].str.contains(word)].iloc[0]['TargetRule'];
\* <<>> stands for the IndexError of an empty selection
FirstRule(rows, word) ==
    LET hit == SelectSeq(rows, LAMBDA r : NameContains(r.Name, word))
    IN IF hit = <<>> THEN <<>> ELSE <<Strip(hit[1].TargetRule)>>

\* Lines 114-123: the span rule "<min>-<max>"; each int('') raises and leaves
\* what was assigned before it.
SeedSpan(ss, rows) ==
    LET sel == FirstRule(rows, "span")
    IN IF sel = <<>> THEN ss
       ELSE LET p == sel[1]
                left == Before(p, "-")
                toks == Tokens(Before(After(p, "-"), "-"))
            IN IF FirstIdx(p, "-") = 0 THEN ss
               ELSE IF toks = <<>> THEN ss
               ELSE IF DigitsOf(left) = <<>> THEN ss
               ELSE IF DigitsOf(toks[1]) = <<>>
                    THEN [ss EXCEPT !.min_span = IntOf(DigitsOf(left))]
               ELSE [ss EXCEPT !.min_span = IntOf(DigitsOf(left)),
                               !.max_span = IntOf(DigitsOf(toks[1]))]

\* Lines 124-130: the first all-digit token of the layer rule
SeedLayers(ss, rows) ==
    LET sel == FirstRule(rows, "layer")
    IN IF sel = <<>> THEN ss
       ELSE LET nums == SelectSeq(Tokens(sel[1]),
                                  LAMBDA t : \A i \in 1..Len(t) : IsDigit(t[i]))
            IN IF nums = <<>> THEN ss
               ELSE [ss EXCEPT !.max_layers = IntOf(nums[1])]

\* Lines 112-131: prefill once per session
SeedAlways(ss, pr) ==
    IF pr.present
    THEN [SeedLayers(SeedSpan(ss, pr.rows), pr.rows) EXCEPT !.prefilled = TRUE]
    ELSE ss

Seed(ss, pr) ==
    IF pr.present /\ ss.prefilled = FALSE
    THEN [SeedLayers(SeedSpan(ss, pr.rows), pr.rows) EXCEPT !.prefilled = TRUE]
    ELSE ss

-----------------------------------------------------------------------------
(* KPIs, flags, duplicate titles, recommendations: lines 107-110, 143-227 *)

\* A stable sort: the indices of keys in ascending key order.  InsertIdx puts
\* index i into the sorted index sequence s after the indices whose key is
\* not larger.
RECURSIVE InsertIdx(_, _, _)
InsertIdx(i, s, keys) ==
    IF s = <<>> THEN <<i>>
    ELSE IF keys[i] < keys[Head(s)] THEN <<i>> \o s
    ELSE <<Head(s)>> \o InsertIdx(i, Tail(s), keys)

RECURSIVE SortIdx(_, _)
SortIdx(n, keys) ==
    IF n = 0 THEN <<>> ELSE InsertIdx(n, SortIdx(n - 1, keys), keys)

\* s rearranged in ascending order of keys (keys[i] is the key of s[i])
SortedBy(s, keys) == [i \in 1..Len(s) |-> s[SortIdx(Len(s), keys)[i]]]

\* lines 107-110: unassigned depths become 0; emp['Depth'] = map(depth)
WithDepth(e, d) ==
    [i \in 1..Len(e) |->
        [e[i] EXCEPT !.Depth =
            LET v == Get(d, e[i].EmployeeID, NONE)
            IN IF v = NONE THEN 0 ELSE v]]

Managers(e) == SelectSeq(e, LAMBDA r : r.IsManager)

Spans(e) == [i \in 1..Len(Managers(e)) |-> Managers(e)[i].DirectReports]

\* n_managers / n_people if n_people else 0, as <<numerator, denominator>>
ManagerRatio(e) == IF Len(e) # 0 THEN <<Len(Managers(e)), Len(e)>> ELSE <<0, 1>>

AvgSpan(e) ==
    IF Len(Managers(e)) # 0 THEN <<SumSeq(Spans(e)), Len(Managers(e))>> ELSE <<0, 1>>

MedianSpan(e) ==
    LET s == SortedBy(Spans(e), Spans(e))
        n == Len(s)
    IN IF n = 0 THEN <<0, 1>>
       ELSE IF n % 2 = 1 THEN <<s[(n + 1) \div 2], 1>>
       ELSE <<s[n \div 2] + s[n \div 2 + 1], 2>>

MinObserved(e) ==
    IF Len(Managers(e)) # 0
    THEN CHOOSE v \in Range(Spans(e)) : \A w \in Range(Spans(e)) : v <= w
    ELSE 0

MaxObserved(e) ==
    IF Len(Managers(e)) # 0
    THEN CHOOSE v \in Range(Spans(e)) : \A w \in Range(Spans(e)) : v >= w
    ELSE 0

\* int(emp['Depth'].max()): the maximum of an empty column is NaN and int(NaN)
\* raises ValueError
MaxDepthFaults(e) == Len(e) = 0

MaxDepth(e) ==
    CHOOSE v \in {e[i].Depth : i \in 1..Len(e)} :
        \A i \in 1..Len(e) : v >= e[i].Depth

BelowMin(e, lo) == SelectSeq(Managers(e), LAMBDA r : r.DirectReports < lo)

AboveMax(e, hi) == SelectSeq(Managers(e), LAMBDA r : r.DirectReports > hi)

SingleReport(e) == SelectSeq(Managers(e), LAMBDA r : r.DirectReports = 1)

\* edges.merge(employees[['EmployeeID','JobRole']], how='left'): the role of
\* each edge row's employee; a row of an unknown employee has no role and
\* groupby drops it
RoleOf(s, id) ==
    LET rows == s.employees.rows
    IN (CHOOSE i \in 1..Len(rows) : rows[i].EmployeeID = id)

GroupCount(s, m, role) ==
    Cardinality({i \in 1..Len(s.edges.rows) :
        /\ s.edges.rows[i].ManagerID = m
        /\ s.edges.rows[i].EmployeeID \in IdsOf(s.employees.rows)
        /\ s.employees.rows[RoleOf(s, s.edges.rows[i].EmployeeID)].JobRole = role})

\* groupby(['ManagerID','JobRole']) lists its groups in key order: by manager
\* string ('nan' last), then by role
GroupKey(g) ==
    (IF g.ManagerID = NAN THEN LastId + 1 ELSE g.ManagerID) * (MaxRole + 1)
    + g.JobRole

RECURSIVE SetToSeq(_)
SetToSeq(S) ==
    IF S = {} THEN <<>>
    ELSE LET x == CHOOSE y \in S : TRUE IN <<x>> \o SetToSeq(S \ {x})

Groups(s) ==
    LET keys == {[ManagerID |-> s.edges.rows[i].ManagerID,
                  JobRole |-> s.employees.rows[RoleOf(s, s.edges.rows[i].EmployeeID)].JobRole] :
                    i \in {j \in 1..Len(s.edges.rows) :
                             s.edges.rows[j].EmployeeID \in IdsOf(s.employees.rows)}}
        listed == SetToSeq(keys)
        ordered == SortedBy(listed, [i \in 1..Len(listed) |-> GroupKey(listed[i])])
    IN [i \in 1..Len(ordered) |->
          [ManagerID |-> ordered[i].ManagerID, JobRole |-> ordered[i].JobRole,
           Count |-> GroupCount(s, ordered[i].ManagerID, ordered[i].JobRole)]]

\* lines 161-167: groups of at least two, largest count first (groups of the
\* same count are listed in key order here; sort_values leaves their order
\* open, and nothing below depends on it)
DupTitles(s) ==
    IF s.edges.present /\ s.employees.hasJobRole
    THEN LET many == SelectSeq(Groups(s), LAMBDA g : g.Count >= 2)
         IN SortedBy(many, [i \in 1..Len(many) |-> 0 - many[i].Count])
    ELSE <<>>

Rec(kind, who, n, limit, role) ==
    [kind |-> kind, who |-> who, n |-> n, limit |-> limit, role |-> role]

\* lines 210-220
RecsLayersLast(maxd, c, below, above, dups) ==
    [i \in 1..Len(below) |->
        Rec("below", below[i].EmployeeID, below[i].DirectReports, c.min_span, 0)]
    \o [i \in 1..Len(above) |->
        Rec("above", above[i].EmployeeID, above[i].DirectReports, c.max_span, 0)]
    \o [i \in 1..Len(Take(dups, DupHead)) |->
        Rec("dup", dups[i].ManagerID, dups[i].Count, 0, dups[i].JobRole)]
    \o (IF maxd > c.max_layers_target
        THEN <<Rec("layers", NAN, maxd, c.max_layers_target, 0)>>
        ELSE <<>>)

Recs(maxd, c, below, above, dups) ==
    (IF maxd > c.max_layers_target
     THEN <<Rec("layers", NAN, maxd, c.max_layers_target, 0)>>
     ELSE <<>>)
    \o [i \in 1..Len(below) |->
        Rec("below", below[i].EmployeeID, below[i].DirectReports, c.min_span, 0)]
    \o [i \in 1..Len(above) |->
        Rec("above", above[i].EmployeeID, above[i].DirectReports, c.max_span, 0)]
    \o [i \in 1..Len(Take(dups, DupHead)) |->
        Rec("dup", dups[i].ManagerID, dups[i].Count, 0, dups[i].JobRole)]

\* lines 223-225: for r in recs[:50]
Shown(recs) == Take(recs, RecsShown)

Output(e, s, c) ==
    LET below == BelowMin(e, c.min_span)
        above == AboveMax(e, c.max_span)
        dups == DupTitles(s)
        recs == Recs(MaxDepth(e), c, below, above, dups)
    IN [produced |-> TRUE, n_people |-> Len(e), n_managers |-> Len(Managers(e)),
        manager_ratio |-> ManagerRatio(e), avg_span |-> AvgSpan(e),
        median_span |-> MedianSpan(e), min_observed |-> MinObserved(e),
        max_observed |-> MaxObserved(e), max_depth |-> MaxDepth(e),
        below_min |-> below, above_max |-> above,
        single_report |-> SingleReport(e), dup_titles |-> dups,
        recs |-> recs, shown |-> Shown(recs)]

\* The rest of the script once the traversal is over: lines 107-227
Finish ==
    /\ pc = "bfs"
    /\ q = <<>>
    /\ roots = <<>>
    /\ emp' = WithDepth(emp, depth)
    /\ depth' = [k \in DOMAIN depth |-> IF depth[k] = NONE THEN 0 ELSE depth[k]]
    /\ session' = Seed(session, sheets.principles)
    /\ principlesSeen' = (principlesSeen \/ sheets.principles.present)
    /\ IF MaxDepthFaults(emp')
       THEN /\ pc' = "fault"
            /\ out' = NoOutput
       ELSE /\ pc' = "done"
            /\ out' = Output(emp', sheets, ctl)
    /\ UNCHANGED <<sheets, ctl, hashOrder, parent_of, roots, q, enq>>

-----------------------------------------------------------------------------
(* Uploads *)

Table(rows, mgrCol, roleCol) ==
    [present |-> TRUE, hasManagerID |-> mgrCol, hasJobRole |-> roleCol, rows |-> rows]

NoTable == [present |-> FALSE, hasManagerID |-> FALSE, hasJobRole |-> FALSE, rows |-> <<>>]

NoEdges == [present |-> FALSE, rows |-> <<>>]

NoPrinciples == [present |-> FALSE, rows |-> <<>>]

Sheets(e, g, p) == [employees |-> e, edges |-> g, principles |-> p]

EmpRow(id, m, role) == [EmployeeID |-> id, ManagerID |-> m, JobRole |-> role]

EdgeRow(id, m) == [EmployeeID |-> id, ManagerID |-> m]

\* The sidebar's number_input defaults
DefaultCtl ==
    [min_span |-> DefaultMinSpan, max_span |-> DefaultMaxSpan,
     max_layers_target |-> DefaultMaxLayers]

Ascending(n) == [i \in 1..n |-> i]
Descending(n) == [i \in 1..n |-> n + 1 - i]

\* Rows of up to MaxIds employees with unique identifiers and a ManagerID
\* column
UniqueIds(rows) ==
    \A i, j \in 1..Len(rows) : rows[i].EmployeeID = rows[j].EmployeeID => i = j

EmployeeRowSet == [EmployeeID : Ids, ManagerID : Mgrs, JobRole : {1}]

\* Rosters for use with OrgEdges: nobody, the identifiers 1..MaxIds-1 (so that
\* an edge can name somebody outside the table), and 1..MaxIds without a
\* ManagerID column or with one that names employee 1 on every row
Rosters ==
    {Table([i \in 1..k |-> EmpRow(i, NAN, 1)], FALSE, FALSE) : k \in {0, MaxIds - 1, MaxIds}}
    \cup {Table([i \in 1..MaxIds |-> EmpRow(i, 1, 1)], TRUE, FALSE)}

\* Edge rows of up to MaxEdgeRows rows, repeated rows included.  Nothing the
\* script computes from OrgEdges depends on the order of its rows, so the rows
\* are listed in one order.
EdgeKey(r) == r.EmployeeID * (MaxIds + 1) + r.ManagerID

InKeyOrder(rows) ==
    \A i \in 1..(Len(rows) - 1) : EdgeKey(rows[i]) <= EdgeKey(rows[i + 1])

EdgeRowSet == [EmployeeID : Ids, ManagerID : Mgrs]

\* Principles sheets: TargetRule texts
Rule412 ==
    <<"4", "-", "1", "2", " ", "d", "i", "r", "e", "c", "t", " ", "r",
    "e", "p", "o", "r", "t", "s">>
Rule6Layers ==
    <<"m", "a", "x", " ", "6", " ", "l", "a", "y", "e", "r", "s">>
Rule23 == <<" ", "2", " ", "-", " ", "3", " ">>
Rule5Many == <<"5", "-", "m", "a", "n", "y">>
RuleFew == <<"a", " ", "f", "e", "w">>
Rule39And4 ==
    <<"3", "-", "9", " ", "a", "n", "d", " ", "4", " ", "l", "a", "y",
    "e", "r", "s">>

PRow(name, rule) == [Name |-> name, TargetRule |-> rule]

PrinciplesSheets ==
    {[present |-> TRUE, rows |-> rows] : rows \in
        {<<PRow("Span of Control", Rule412), PRow("Max Layers", Rule6Layers)>>,
         <<PRow("Span of Control", Rule23)>>,
         <<PRow("Span of Control", Rule5Many), PRow("Max Layers", RuleFew)>>,
         <<PRow("Cost", Rule23)>>,
         <<PRow("Spans and Layers", Rule39And4)>>}}

\* A heads the team; B and C report to A
SmallTeam == <<EmpRow(1, NAN, 1), EmpRow(2, 1, 2), EmpRow(3, 1, 2)>>

SessionEmployees ==
    {NoTable, Table(SmallTeam, TRUE, TRUE), Table(SmallTeam, FALSE, TRUE),
     Table(<<>>, TRUE, TRUE)}

SessionEdges ==
    {NoEdges, [present |-> TRUE, rows |-> <<EdgeRow(2, 1), EdgeRow(3, 1)>>]}

SessionSheets ==
    {Sheets(e, g, p) : e \in SessionEmployees, g \in SessionEdges,
                       p \in PrinciplesSheets \cup {NoPrinciples}}

SessionCtls ==
    {DefaultCtl, [min_span |-> 2, max_span |-> 5, max_layers_target |-> 1]}

\* A large organisation: a head (1), k managers (2..k+1), and under manager j
\* two reports of role 1, odd managers a third report of role 2.
TeamReports(j) ==
    IF j % 2 = 1
    THEN <<EmpRow(100 + 3 * j, j + 1, 1), EmpRow(101 + 3 * j, j + 1, 1),
           EmpRow(102 + 3 * j, j + 1, 2)>>
    ELSE <<EmpRow(100 + 3 * j, j + 1, 1), EmpRow(101 + 3 * j, j + 1, 1)>>

RECURSIVE TeamRows(_)
TeamRows(k) ==
    IF k = 0 THEN <<EmpRow(1, NAN, 1)>>
    ELSE TeamRows(k - 1) \o <<EmpRow(k + 1, 1, 2)>> \o TeamReports(k)

OrgSheets(k) ==
    LET rows == TeamRows(k)
        lines == SelectSeq(rows, LAMBDA r : r.ManagerID # NAN)
    IN Sheets(Table(rows, TRUE, TRUE),
              [present |-> TRUE,
               rows |-> [i \in 1..Len(lines) |->
                            EdgeRow(lines[i].EmployeeID, lines[i].ManagerID)]],
              NoPrinciples)

OrgCtls ==
    {DefaultCtl,
     [min_span |-> 3, max_span |-> 2, max_layers_target |-> 1],
     [min_span |-> 0, max_span |-> 100, max_layers_target |-> 50]}

-----------------------------------------------------------------------------
(* Specifications *)

Init ==
    /\ pc = "idle"
    /\ session = EmptySession
    /\ sheets = Sheets(NoTable, NoEdges, NoPrinciples)
    /\ ctl = DefaultCtl
    /\ hashOrder = <<>>
    /\ emp = <<>>
    /\ parent_of = <<>>
    /\ roots = <<>>
    /\ depth = <<>>
    /\ q = <<>>
    /\ enq = <<>>
    /\ out = NoOutput
    /\ principlesSeen = FALSE

\* The orders in which a pass may iterate its sets of children: with no set
\* of two or more children every order iterates alike
HashOrders(s) ==
    IF \E m \in DOMAIN BuildParentOf(ReportingRows(s)) :
          Cardinality(BuildParentOf(ReportingRows(s))[m]) >= 2
    THEN {Ascending(MaxIds), Descending(MaxIds)}
    ELSE {Ascending(MaxIds)}

\* The first upload of a session: a small employee table with a ManagerID
\* column and no OrgEdges
UploadEmployees ==
    /\ pc = "idle"
    /\ \E n \in 0..MaxIds : \E rows \in [1..n -> EmployeeRowSet] :
          /\ UniqueIds(rows)
          /\ \E o \in HashOrders(Sheets(Table(rows, TRUE, FALSE), NoEdges, NoPrinciples)) :
                Run(Sheets(Table(rows, TRUE, FALSE), NoEdges, NoPrinciples), DefaultCtl, o)

\* The first upload of a session: a roster and OrgEdges
UploadEdges ==
    /\ pc = "idle"
    /\ \E e \in Rosters : \E n \in 0..MaxEdgeRows : \E rows \in [1..n -> EdgeRowSet] :
          /\ InKeyOrder(rows)
          /\ \E o \in HashOrders(Sheets(e, [present |-> TRUE, rows |-> rows], NoPrinciples)) :
                Run(Sheets(e, [present |-> TRUE, rows |-> rows], NoPrinciples), DefaultCtl, o)

\* Any upload or rerun of a session
UploadAny ==
    \E s \in SessionSheets, c \in SessionCtls : Run(s, c, Ascending(MaxIds))

\* The first upload of a session: a large organisation
UploadOrg ==
    /\ pc = "idle"
    /\ \E k \in 0..MaxTeams, c \in OrgCtls :
          Run(OrgSheets(k), c, Ascending(LastId))

NextGraph == UploadEmployees \/ UploadEdges \/ StartRoot \/ Visit \/ Finish

NextSession == UploadAny \/ StartRoot \/ Visit \/ Finish

NextOrg == UploadOrg \/ StartRoot \/ Visit \/ Finish

SpecGraph == Init /\ [][NextGraph]_vars

SpecSession == Init /\ [][NextSession]_vars

SpecOrg == Init /\ [][NextOrg]_vars

Spec == SpecSession

-----------------------------------------------------------------------------
(* Properties *)

PassEnded == pc \in {"halted", "fault", "done"}

Traversed == pc \in {"fault", "done"}

\* The managers the edge rows give identifier x
ManagersIn(rows, x) ==
    {rows[i].ManagerID : i \in {j \in 1..Len(rows) : rows[j].EmployeeID = x}}

\* The identifiers above x within n reporting steps
RECURSIVE Above(_, _, _)
Above(rows, x, n) ==
    IF n = 0 THEN {}
    ELSE ManagersIn(rows, x)
         \cup UNION {Above(rows, m, n - 1) : m \in ManagersIn(rows, x)}

IsForest(rows) ==
    /\ \A x \in IdsOf(rows) : Cardinality(ManagersIn(rows, x)) <= 1
    /\ \A x \in IdsOf(rows) : x \notin Above(rows, x, Len(rows))

\* Manager identifiers that never appear as an employee identifier
EdgeRoots(rows) == {rows[i].ManagerID : i \in 1..Len(rows)} \ IdsOf(rows)

\* The identifiers reachable from the set S along the reporting rows, S included
RECURSIVE Below(_, _, _)
Below(rows, S, n) ==
    IF n = 0 THEN S
    ELSE Below(rows,
               S \cup {rows[i].EmployeeID : i \in {j \in 1..Len(rows) : rows[j].ManagerID \in S}},
               n - 1)

EmpDepth(id) ==
    emp[CHOOSE i \in 1..Len(emp) : emp[i].EmployeeID = id].Depth

\* C1: with an OrgEdges table that is a forest, once the traversal is over
\* every root that is an employee has depth 0 (a root outside the employee
\* table counts as depth 0), every edge's child is one deeper than its
\* parent, and the Depth column carries these depths.
C1_ForestDepths ==
    (Traversed /\ sheets.edges.present /\ IsForest(sheets.edges.rows)) =>
        LET rows == sheets.edges.rows
            d(x) == IF x \in IdsOf(sheets.employees.rows) THEN EmpDepth(x)
                    ELSE Get(depth, x, 0)
        IN /\ \A r \in EdgeRoots(rows) : d(r) = 0
           /\ \A i \in 1..Len(rows) :
                 rows[i].ManagerID \in Below(rows, EdgeRoots(rows), Len(rows)) =>
                     /\ rows[i].EmployeeID \in DOMAIN depth
                     /\ d(rows[i].EmployeeID) = d(rows[i].ManagerID) + 1

\* C1 witness: a finished pass over a forest whose root is an employee at
\* depth 0 with an employee two layers below it
C1_Witness ==
    /\ pc = "done"
    /\ sheets.edges.present
    /\ IsForest(sheets.edges.rows)
    /\ \E r \in EdgeRoots(sheets.edges.rows) \cap IdsOf(sheets.employees.rows) :
          /\ EmpDepth(r) = 0
          /\ \E i, j \in 1..Len(sheets.edges.rows) :
                /\ sheets.edges.rows[i].ManagerID = r
                /\ sheets.edges.rows[j].ManagerID = sheets.edges.rows[i].EmployeeID
                /\ sheets.edges.rows[j].EmployeeID \in IdsOf(sheets.employees.rows)
                /\ EmpDepth(sheets.edges.rows[j].EmployeeID) = 2

\* The number of rows of a table that name m as manager, row by row
RECURSIVE RowsNaming(_, _)
RowsNaming(rows, m) ==
    IF rows = <<>> THEN 0
    ELSE (IF Head(rows).ManagerID = m THEN 1 ELSE 0) + RowsNaming(Tail(rows), m)

C10_ViewsAgree ==
    pc \in {"bfs", "done"} =>
        \A i \in 1..Len(emp) :
            emp[i].DirectReports = Cardinality(Get(parent_of, emp[i].EmployeeID, {}))

\* C9 (safety part): no identifier is put on the deque twice; after the
\* traversal every employee has a depth >= 0, and 0 when no root reaches it.
C9_Safe ==
    /\ \A x \in DOMAIN enq : enq[x] <= 1
    /\ Traversed =>
          LET rows == ReportingRows(sheets)
              reached == Below(rows, Range(RootsOf(sheets)), Len(rows))
          IN \A i \in 1..Len(emp) :
                /\ emp[i].Depth >= 0
                /\ emp[i].EmployeeID \notin reached => emp[i].Depth = 0

\* What the traversal still has to do: the roots to start from, the deque,
\* and the identifiers without a depth (each counted twice, since giving one
\* a depth also puts it on the deque)
WorkLeft ==
    2 * Len(roots) + Len(q)
    + 2 * Cardinality({x \in DOMAIN enq : Get(depth, x, NONE) = NONE})

\* C9: for any reporting relation the traversal ends (every step of it leaves
\* less to do, and StartRoot, Visit and Finish between them are enabled in
\* every state of it), puts no identifier on the deque twice, and leaves
\* depths >= 0 with 0 for the unreached.
C9_TraversalEnds ==
    /\ []C9_Safe
    /\ [][(pc = "bfs" /\ pc' = "bfs") => WorkLeft' < WorkLeft]_vars

\* C9 witness: a finished pass over edges with a cycle that a root leads
\* into, an employee with two managers put on the deque once, and an employee
\* no root reaches
C9_Witness ==
    /\ pc = "done"
    /\ sheets.edges.present
    /\ \E x \in IdsOf(sheets.edges.rows) :
          /\ x \in Above(sheets.edges.rows, x, Len(sheets.edges.rows))
          /\ enq[x] = 1
    /\ \E x \in IdsOf(sheets.edges.rows) :
          Cardinality(ManagersIn(sheets.edges.rows, x)) = 2 /\ enq[x] = 1
    /\ \E i \in 1..Len(emp) : enq[emp[i].EmployeeID] = 0 /\ emp[i].Depth = 0

\* A session value when seeded, else the sidebar control
Effective(seeded, control) == IF seeded # NONE THEN seeded ELSE control

\* C2: a pass that starts with session values seeded from Principles computes
\* its flagged subsets and its layer recommendation with those values in place
\* of the sidebar controls.
C2_SeededTargetsUsed ==
    [][(pc = "bfs" /\ pc' = "done" /\ session.prefilled) =>
          /\ out'.below_min = BelowMin(emp', Effective(session.min_span, ctl.min_span))
          /\ out'.above_max = AboveMax(emp', Effective(session.max_span, ctl.max_span))
          /\ (\E i \in 1..Len(out'.recs) : out'.recs[i].kind = "layers")
                <=> out'.max_depth > Effective(session.max_layers, ctl.max_layers_target)]_vars

SessionTargets == <<session.min_span, session.max_span, session.max_layers>>

\* C3 as stated: once a pass that had a Principles sheet has ended, no step
\* changes the session's min span, max span or max layers.
C3_NoChangeAfterPrinciplesPass ==
    [][principlesSeen => SessionTargets' = SessionTargets]_vars

\* C3 amended: the session targets and the seeding flag change only in a pass
\* with a Principles sheet that reaches the seeding step while the flag is
\* unset, and that step sets the flag; so once the flag is set nothing
\* changes them, whatever later uploads hold.
C3_SeededAtMostOnce ==
    [][session' # session =>
          /\ ~session.prefilled
          /\ session'.prefilled
          /\ pc = "bfs"
          /\ sheets.principles.present]_vars

\* C3 witness: a later pass has finished with a Principles sheet that would
\* seed other values than the session holds
C3_Witness ==
    /\ pc = "done"
    /\ session.prefilled
    /\ session.min_span # NONE
    /\ sheets.principles.present
    /\ Seed(EmptySession, sheets.principles).min_span \notin {NONE, session.min_span}

\* The span rule parses: a '-', a token after it, digits on both sides
SpanRuleParses(rows) ==
    /\ FirstRule(rows, "span") # <<>>
    /\ LET p == FirstRule(rows, "span")[1]
       IN /\ \E i \in 1..Len(p) : p[i] = "-"
          /\ \E i \in 1..Len(Before(p, "-")) : IsDigit(Before(p, "-")[i])
          /\ \E i \in 1..Len(Tokens(Before(After(p, "-"), "-"))[1]) :
                IsDigit(Tokens(Before(After(p, "-"), "-"))[1][i])

\* C4: a seeding attempt whose span rule fails to parse changes neither the
\* session's min span nor its max span, and the pass goes on.
C4_FailedParseSeedsNothing ==
    [][(pc = "bfs" /\ pc' = "done" /\ sheets.principles.present
          /\ ~session.prefilled /\ ~SpanRuleParses(sheets.principles.rows)) =>
            /\ session'.min_span = session.min_span
            /\ session'.max_span = session.max_span]_vars

\* C7: a pass halts, with no output and the session untouched, exactly when
\* the employee table is missing or there is neither OrgEdges nor a ManagerID
\* column; every other upload runs to completion.
C7_HaltsOnlyOnMissingInput ==
    [][/\ (pc' = "halted" =>
              (MissingInput(sheets') /\ session' = session /\ out' = NoOutput))
       /\ (MissingInput(sheets') => pc' = "halted")
       /\ (~MissingInput(sheets') => pc' \in {"bfs", "done"})]_vars

\* C8: with headcount 0 the pass completes with manager ratio 0 and zero span
\* statistics; with headcount > 0 the ratio is managers / headcount and the
\* managers are at most the headcount.
C8_RatioSafe ==
    /\ (PassEnded /\ ~MissingInput(sheets) /\ Len(sheets.employees.rows) = 0) =>
          /\ pc = "done"
          /\ out.manager_ratio = <<0, 1>>
          /\ out.avg_span = <<0, 1>> /\ out.median_span = <<0, 1>>
          /\ out.min_observed = 0 /\ out.max_observed = 0
    /\ (pc = "done" /\ out.n_people > 0) =>
          /\ out.manager_ratio = <<out.n_managers, out.n_people>>
          /\ out.n_managers <= out.n_people

KindRank(k) ==
    CASE k = "layers" -> 0 [] k = "below" -> 1 [] k = "above" -> 2 [] k = "dup" -> 3

\* C5: in the recommendation list the layer message (there iff max depth
\* exceeds the layer target) comes first, then the below-min messages, then
\* the above-max messages, then at most 20 duplicate-title messages in
\* non-increasing count; what is shown is the first min(50, length) entries.
C5_RecsOrder ==
    pc = "done" =>
        LET recs == out.recs
            dupAt == {i \in 1..Len(recs) : recs[i].kind = "dup"}
            layersAt == {i \in 1..Len(recs) : recs[i].kind = "layers"}
        IN /\ (layersAt # {}) <=> (out.max_depth > ctl.max_layers_target)
           /\ Cardinality(layersAt) <= 1
           /\ \A i, j \in 1..Len(recs) :
                 i < j => KindRank(recs[i].kind) <= KindRank(recs[j].kind)
           /\ Cardinality(dupAt) <= DupHead
           /\ \A i, j \in dupAt : i < j => recs[i].n >= recs[j].n
           /\ Len(out.shown) = Min2(RecsShown, Len(recs))
           /\ \A i \in 1..Len(out.shown) : out.shown[i] = recs[i]

\* C5 witness: a finished pass with all four kinds of message, more than 20
\* duplicate-title groups of differing counts and more than 50 messages
C5_Witness ==
    /\ pc = "done"
    /\ Len(out.recs) > RecsShown
    /\ Len(out.dup_titles) > DupHead
    /\ \A k \in {"layers", "below", "above", "dup"} :
          \E i \in 1..Len(out.recs) : out.recs[i].kind = k
    /\ \E i, j \in 1..Len(out.recs) :
          /\ out.recs[i].kind = "dup" /\ out.recs[j].kind = "dup"
          /\ out.recs[i].n > out.recs[j].n

=============================================================================
